---- MODULE Spec2Model ----
(***************************************************************************)
(* The betatips backend as a state machine.                                *)
(*                                                                         *)
(* The repository holds two servers over the same kind of store:           *)
(*   "monolith"  src/server.js (lines 1-652): every route in one file,     *)
(*               its own User/Game/Post schemas and authenticateToken;     *)
(*   "modular"   src/unnamed/part_002 mounting the routers of              *)
(*               src/unnamed/part_000 (auth), src/unnamed/part_001 (admin),*)
(*               src/routes/games.js and src/routes/community.js, behind   *)
(*               the auth and isAdmin middlewares.                         *)
(* A behaviour runs one of them (app); src/createAdmin.js is a script that *)
(* can be run against either store.                                        *)
(*                                                                         *)
(* In Spec every request handler is one step (the awaits inside a handler  *)
(* are not interleaving points here) and writes its response to resp; the  *)
(* next request is taken once the response has gone out (Respond).         *)
(***************************************************************************)
EXTENDS Integers, Sequences, FiniteSets, Bags, TLC

\* ------------------------------------------------------------------ bounds
MaxUserId == 3      \* account ids ever allocated
MaxGameId == 1      \* game ids ever allocated
MaxPostId == 1      \* post ids ever allocated
MaxReplies == 1     \* replies (comments) kept on one post
MaxTime   == 1      \* values the clock is read at
MaxInflight == 2    \* handlers between their read and their save

\* ------------------------------------------------------- program constants
MinPasswordLength == 6
VipDurationDays   == 30

\* ------------------------------------------------------------ input domains
Apps          == {"monolith", "modular"}
Usernames     == {"admin", "alice"}            \* usernames a caller registers
LoginNames    == {"admin", "alice", "bob"}     \* usernames a caller logs in with
Emails        == {"a@x.com", "b@y.com"}
RegPasswords  == {"secret1"}
NewPasswords  == {"", "abcde", "abcdef"}       \* lengths 0, 5, 6
TempPasswords == {"100000"}                    \* 6-digit codes
Passwords     == {"secret1", "abcdef", "admin123"}   \* presented at login
Times         == 1..MaxTime
BadId         == -1                            \* an id that is no ObjectId
UserTargets   == BadId..MaxUserId              \* 0: well-formed, never stored
GameTargets   == BadId..MaxGameId
PostTargets   == BadId..MaxPostId
Categories    == {"All Tips", "VIP Tips"}
Results       == {"win", "loss", "draw"}       \* "draw" is no valid result
\* bodies of POST /api/posts: comments of any authors, with or without author
PostBodies    ==
  LET comments == UNION {[1..n -> 1..MaxUserId] : n \in 0..MaxReplies}
  IN {[replies |-> c] : c \in comments}
       \cup {[author |-> a, replies |-> c] : a \in 1..MaxUserId, c \in comments}

Null == <<>>                                   \* null / undefined
NoResult == "undefined"                        \* a game's result while not set

VARIABLES
  app,          \* which server this behaviour runs
  users,        \* the users collection: id -> document
  nextUserId,   \* ids allocated so far
  tokens,       \* tokens issued so far (bearer tokens, never stored)
  mounted,      \* modular: PATCH /change-password is registered on the router
  games,        \* the games collection: id -> document
  nextGameId,
  posts,        \* the posts collection: id -> document
  nextPostId,
  resp,         \* the request just handled and its response, until sent
  inflight      \* handlers that have read and await their write (save)

vars == <<app, users, nextUserId, tokens, mounted, games, nextGameId,
          posts, nextPostId, resp, inflight>>

\* -------------------------------------------------------------- documents
Date(t) == <<"date", t>>
Get(doc, f) == IF f \in DOMAIN doc THEN doc[f] ELSE Null

Hash(p) == <<"bcrypt", p>>
comparePassword(p, stored) == stored = Hash(p)

\* The schema of server.js with isAdmin defaulting to true.
MonolithUser_AdminDefault(username, email, hashed) ==
  [username |-> username, email |-> email, password |-> hashed,
   hasPaid |-> FALSE, isAdmin |-> TRUE, isBlocked |-> FALSE,
   needsPasswordChange |-> FALSE, paymentDate |-> Null]

\* The document new User({...}) yields under the schema of server.js.
MonolithUser(username, email, hashed) ==
  [username |-> username, email |-> email, password |-> hashed,
   hasPaid |-> FALSE, isAdmin |-> FALSE, isBlocked |-> FALSE,
   needsPasswordChange |-> FALSE, paymentDate |-> Null]

\* The document new User({...}) yields under models/User, saved: the pre-save
\* hook hashes the password; flags default to false, isActive to true, the
\* VIP dates and the transaction id to null.
ModelsUser(username, email, password, isAdmin, hasPaid) ==
  [username |-> username, email |-> email, password |-> Hash(password),
   hasPaid |-> hasPaid, isAdmin |-> isAdmin, isActive |-> TRUE,
   vipStartDate |-> Null, vipExpiryDate |-> Null, transactionId |-> Null]

findOneByUsername(username) == {u \in DOMAIN users : users[u].username = username}
\* The existence check looking at the username only.
findOneByEmailOrUsername_UsernameOnly(email, username) ==
  {u \in DOMAIN users : users[u].username = username}

findOneByEmailOrUsername(email, username) ==
  {u \in DOMAIN users : users[u].email = email \/ users[u].username = username}
findById(id) == IF id \in DOMAIN users THEN {id} ELSE {}

Insert(coll, id, doc) == [i \in DOMAIN coll \cup {id} |-> IF i = id THEN doc ELSE coll[i]]
Remove(coll, ids) == [i \in DOMAIN coll \ ids |-> coll[i]]
Update(coll, id, f, v) == [coll EXCEPT ![id] = [coll[id] EXCEPT ![f] = v]]

\* --------------------------------------------------------------- tokens
\* jwt.sign / jwt.verify: a token is the signed payload; expiry is not reached
\* within a behaviour.
ModularToken(id, doc)  == [userId |-> id, isAdmin |-> doc.isAdmin]
MonolithToken(id, doc) == [userId |-> id, username |-> doc.username]

\* middleware/auth (modular): verifies the token and sets req.userId.
auth(tok) == tok.userId
\* server.js authenticateToken: verifies the token and sets req.user.
authenticateToken(tok) == tok.userId

Idle  == [op |-> "idle"]
Ready == resp = Idle

Init ==
  /\ app \in Apps
  /\ users = <<>>
  /\ nextUserId = 1
  /\ tokens = {}
  /\ mounted = FALSE
  /\ games = <<>>
  /\ nextGameId = 1
  /\ posts = <<>>
  /\ nextPostId = 1
  /\ resp = Idle
  /\ inflight = EmptyBag

UNCH_content == UNCHANGED <<games, nextGameId, posts, nextPostId>>
UNCH_store   == UNCHANGED <<users, nextUserId, games, nextGameId, posts, nextPostId>>

\* ------------------------------------------------------------- bootstrap
\* part_002: createDefaultAdmin, run when the connection opens (each start).
\* save() is rejected by the unique index when the e-mail is already stored;
\* the error is caught and logged.
createDefaultAdmin ==
  /\ Ready
  /\ app = "modular"
  /\ findOneByUsername("admin") = {} => nextUserId <= MaxUserId
  /\ IF findOneByUsername("admin") = {}
       /\ findOneByEmailOrUsername("admin@betatips.com.ng", "admin") = {}
     THEN /\ users' = Insert(users, nextUserId,
                 ModelsUser("admin", "admin@betatips.com.ng", "admin123", TRUE, TRUE))
          /\ nextUserId' = nextUserId + 1
          /\ resp' = [op |-> "createDefaultAdmin", created |-> TRUE]
     ELSE /\ UNCHANGED <<users, nextUserId>>
          /\ resp' = [op |-> "createDefaultAdmin", created |-> FALSE]
  /\ UNCHANGED <<app, inflight, tokens, mounted>>
  /\ UNCH_content

\* createAdmin.js: delete any account named admin, then create a new one.
\* Under server.js the document is read through its own schema.
createAdmin ==
  /\ Ready
  /\ nextUserId <= MaxUserId
  /\ LET kept == Remove(users, findOneByUsername("admin"))
         taken == {u \in DOMAIN kept : kept[u].email = "admin@example.com"}
         doc == IF app = "modular"
                THEN ModelsUser("admin", "admin@example.com", "admin123", TRUE, TRUE)
                ELSE [MonolithUser("admin", "admin@example.com", Hash("admin123"))
                        EXCEPT !.isAdmin = TRUE, !.hasPaid = TRUE]
     IN IF taken = {}
        THEN /\ users' = Insert(kept, nextUserId, doc)
             /\ nextUserId' = nextUserId + 1
             /\ resp' = [op |-> "createAdmin", created |-> TRUE]
        ELSE /\ users' = kept
             /\ UNCHANGED nextUserId
             /\ resp' = [op |-> "createAdmin", created |-> FALSE]
  /\ UNCHANGED <<app, inflight, tokens, mounted>>
  /\ UNCH_content

\* ------------------------------------------------------------------ auth
\* part_000 POST /register
RegisterModular(username, email, password) ==
  /\ Ready
  /\ app = "modular"
  /\ IF findOneByEmailOrUsername(email, username) # {}
     THEN /\ resp' = [op |-> "register", username |-> username, email |-> email,
                      status |-> 400, message |-> "User already exists", token |-> Null]
          /\ UNCHANGED <<users, nextUserId, tokens>>
     ELSE /\ nextUserId <= MaxUserId
          /\ LET doc == ModelsUser(username, email, password, FALSE, FALSE)
                 tok == ModularToken(nextUserId, doc)
             IN /\ users' = Insert(users, nextUserId, doc)
                /\ nextUserId' = nextUserId + 1
                /\ tokens' = tokens \cup {tok}
                /\ resp' = [op |-> "register", username |-> username, email |-> email,
                            status |-> 201, message |-> "", token |-> tok]
  /\ UNCHANGED <<app, inflight, mounted>>
  /\ UNCH_content

\* server.js POST /api/auth/register
RegisterMonolith(username, email, password) ==
  /\ Ready
  /\ app = "monolith"
  /\ IF findOneByEmailOrUsername(email, username) # {}
     THEN /\ resp' = [op |-> "register", username |-> username, email |-> email,
                      status |-> 400, message |-> "User already exists", token |-> Null]
          /\ UNCHANGED <<users, nextUserId, tokens>>
     ELSE /\ nextUserId <= MaxUserId
          /\ LET doc == MonolithUser(username, email, Hash(password))
                 tok == MonolithToken(nextUserId, doc)
             IN /\ users' = Insert(users, nextUserId, doc)
                /\ nextUserId' = nextUserId + 1
                /\ tokens' = tokens \cup {tok}
                /\ resp' = [op |-> "register", username |-> username, email |-> email,
                            status |-> 201, message |-> "User created successfully",
                            token |-> tok]
  /\ UNCHANGED <<app, inflight, mounted>>
  /\ UNCH_content

\* POST /login without the isActive branch.
LoginModularOutcome_NoActiveCheck(username, password) ==
  LET found == findOneByUsername(username) IN
  IF found = {}
  THEN [status |-> 400, message |-> "Invalid credentials", userId |-> 0]
  ELSE LET id == CHOOSE u \in found : TRUE IN
       IF ~comparePassword(password, users[id].password)
       THEN [status |-> 400, message |-> "Invalid credentials", userId |-> 0]
       ELSE [status |-> 200, message |-> "", userId |-> id]

\* part_000 POST /login: what the handler answers, and for whom it signs.
LoginModularOutcome(username, password) ==
  LET found == findOneByUsername(username) IN
  IF found = {}
  THEN [status |-> 400, message |-> "Invalid credentials", userId |-> 0]
  ELSE LET id == CHOOSE u \in found : TRUE IN
       IF ~users[id].isActive
       THEN [status |-> 403,
             message |-> "Account has been deactivated. Contact support.", userId |-> 0]
       ELSE IF ~comparePassword(password, users[id].password)
       THEN [status |-> 400, message |-> "Invalid credentials", userId |-> 0]
       ELSE [status |-> 200, message |-> "", userId |-> id]

\* server.js POST /api/auth/login
LoginMonolithOutcome(username, password) ==
  LET found == findOneByUsername(username) IN
  IF found = {}
  THEN [status |-> 400, message |-> "Invalid credentials", userId |-> 0]
  ELSE LET id == CHOOSE u \in found : TRUE IN
       IF ~comparePassword(password, users[id].password)
       THEN [status |-> 400, message |-> "Invalid credentials", userId |-> 0]
       ELSE [status |-> 200, message |-> "Login successful", userId |-> id]

Login(username, password) ==
  /\ Ready
  /\ LET out == IF app = "modular" THEN LoginModularOutcome(username, password)
                ELSE LoginMonolithOutcome(username, password)
         tok == IF out.status # 200 THEN Null
                ELSE IF app = "modular" THEN ModularToken(out.userId, users[out.userId])
                ELSE MonolithToken(out.userId, users[out.userId])
     IN /\ tokens' = IF out.status = 200 THEN tokens \cup {tok} ELSE tokens
        /\ resp' = [op |-> "login", username |-> username, password |-> password,
                    status |-> out.status, message |-> out.message, token |-> tok]
  /\ UNCHANGED <<app, inflight, mounted>>
  /\ UNCH_store

\* part_000 GET /me. The router.patch('/change-password', ...) call sits inside
\* this handler, after the isActive check: the route is registered when the
\* handler gets that far.
GetMeModular(tok) ==
  /\ Ready
  /\ app = "modular"
  /\ LET id == auth(tok) IN
     IF findById(id) = {} \/ ~users[id].isActive
     THEN /\ resp' = [op |-> "me", actor |-> id, status |-> 403,
                      message |-> "Account deactivated"]
          /\ UNCHANGED mounted
     ELSE /\ mounted' = TRUE
          /\ resp' = [op |-> "me", actor |-> id, status |-> 200, message |-> ""]
  /\ UNCHANGED <<app, inflight, tokens>>
  /\ UNCH_store

\* server.js GET /api/auth/me
GetMeMonolith(tok) ==
  /\ Ready
  /\ app = "monolith"
  /\ LET id == authenticateToken(tok) IN
     resp' = IF findById(id) = {}
             THEN [op |-> "me", actor |-> id, status |-> 404, message |-> "User not found"]
             ELSE [op |-> "me", actor |-> id, status |-> 200, message |-> ""]
  /\ UNCHANGED <<app, inflight, tokens, mounted>>
  /\ UNCH_store

\* part_000 PATCH /change-password: the answer, and whether the password is
\* replaced.
ChangePasswordModularOutcome(id, currentPassword, newPassword) ==
  IF ~mounted
  THEN [status |-> 404, message |-> "Cannot PATCH /api/auth/change-password", set |-> FALSE]
  ELSE IF currentPassword = "" \/ newPassword = ""
  THEN [status |-> 400, message |-> "Current password and new password are required",
        set |-> FALSE]
  ELSE IF Len(newPassword) < MinPasswordLength
  THEN [status |-> 400, message |-> "New password must be at least 6 characters",
        set |-> FALSE]
  ELSE IF findById(id) = {}
  THEN [status |-> 404, message |-> "User not found", set |-> FALSE]
  ELSE IF ~comparePassword(currentPassword, users[id].password)
  THEN [status |-> 400, message |-> "Current password is incorrect", set |-> FALSE]
  ELSE [status |-> 200, message |-> "Password changed successfully", set |-> TRUE]

\* server.js PATCH /api/auth/change-password
ChangePasswordMonolithOutcome(id, currentPassword, newPassword) ==
  IF findById(id) = {}
  THEN [status |-> 404, message |-> "User not found", set |-> FALSE]
  ELSE IF ~comparePassword(currentPassword, users[id].password)
  THEN [status |-> 400, message |-> "Current password is incorrect", set |-> FALSE]
  ELSE [status |-> 200, message |-> "Password changed successfully", set |-> TRUE]

ChangePassword(tok, currentPassword, newPassword) ==
  /\ Ready
  /\ LET id == tok.userId
         out == IF app = "modular"
                THEN ChangePasswordModularOutcome(auth(tok), currentPassword, newPassword)
                ELSE ChangePasswordMonolithOutcome(authenticateToken(tok),
                                                   currentPassword, newPassword)
     IN /\ users' = IF out.set THEN Update(users, id, "password", Hash(newPassword))
                    ELSE users
        /\ resp' = [op |-> "changePassword", actor |-> id,
                    currentPassword |-> currentPassword, newPassword |-> newPassword,
                    status |-> out.status, message |-> out.message]
  /\ UNCHANGED <<app, inflight, nextUserId, tokens, mounted>>
  /\ UNCH_content

\* server.js PATCH /api/user/payment
Payment(tok, now) ==
  /\ Ready
  /\ app = "monolith"
  /\ LET id == authenticateToken(tok) IN
     IF findById(id) = {}
     THEN /\ resp' = [op |-> "payment", actor |-> id, status |-> 500,
                      message |-> "Server error"]
          /\ UNCHANGED users
     ELSE /\ users' = [users EXCEPT ![id] = [users[id] EXCEPT
                         !.hasPaid = TRUE, !.paymentDate = Date(now)]]
          /\ resp' = [op |-> "payment", actor |-> id, status |-> 200,
                      message |-> "Payment status updated successfully"]
  /\ UNCHANGED <<app, inflight, nextUserId, tokens, mounted>>
  /\ UNCH_content

\* The store's isActive flag is cleared outside the request handlers (no
\* handler writes it).
Deactivate(id) ==
  /\ Ready
  /\ app = "modular"
  /\ id \in DOMAIN users
  /\ users[id].isActive
  /\ users' = Update(users, id, "isActive", FALSE)
  /\ resp' = [op |-> "deactivate", target |-> id]
  /\ UNCHANGED <<app, inflight, nextUserId, tokens, mounted>>
  /\ UNCH_content

\* ----------------------------------------------------------------- admin
\* The middleware letting every stored account through.
isAdmin_AnyAccount(id) == findById(id) # {}

\* middleware/isAdmin.js: next() is called for a stored account with isAdmin.
isAdmin(id) == findById(id) # {} /\ users[id].isAdmin

\* server.js, first lines of every admin handler:
\*   const user = await User.findById(req.user.userId); if (!user.isAdmin) ...
\* A missing account makes the property read throw into the handler's catch.
adminCheck(id) ==
  IF findById(id) = {} THEN "throw"
  ELSE IF ~users[id].isAdmin THEN "forbidden" ELSE "ok"

\* The gate of the modular server trusting the isAdmin signed into the token.
Gate_TokenSnapshot(tok) ==
  IF app = "modular"
  THEN IF tok.isAdmin THEN "ok" ELSE "forbidden"
  ELSE adminCheck(authenticateToken(tok))

\* What the admin gate of the running server decides for the bearer of tok.
Gate(tok) ==
  IF app = "modular"
  THEN IF isAdmin(auth(tok)) THEN "ok" ELSE "forbidden"
  ELSE adminCheck(authenticateToken(tok))

Denied(op, tok) ==
  [op |-> op, actor |-> tok.userId,
   status |-> IF Gate(tok) = "forbidden" THEN 403 ELSE 500,
   message |-> IF Gate(tok) = "throw" THEN "Server error"
               ELSE IF app = "modular" THEN "Access denied. Admin only."
               ELSE "Admin access required"]

Answer(op, tok, status, message) ==
  [op |-> op, actor |-> tok.userId, status |-> status, message |-> message]

\* findByIdAndUpdate(id, fields): 500 on an id that does not cast, 404 when no
\* document has the id, otherwise the fields are set in one write.
UpdateById(op, tok, target, fields, message) ==
  IF target = BadId
  THEN /\ resp' = Answer(op, tok, 500, "Server error") @@ [target |-> target]
       /\ UNCHANGED users
  ELSE IF target \notin DOMAIN users
  THEN /\ resp' = Answer(op, tok, 404, "User not found") @@ [target |-> target]
       /\ UNCHANGED users
  ELSE /\ users' = [users EXCEPT ![target] =
                      [f \in DOMAIN users[target] |->
                         IF f \in DOMAIN fields THEN fields[f] ELSE users[target][f]]]
       /\ resp' = Answer(op, tok, 200, message) @@ [target |-> target]

\* part_001 GET /users and server.js GET /api/admin/users
AdminListUsers(tok) ==
  /\ Ready
  /\ resp' = IF Gate(tok) # "ok" THEN Denied("listUsers", tok)
             ELSE [op |-> "listUsers", actor |-> tok.userId, status |-> 200,
                   message |-> "", list |-> DOMAIN users]
  /\ UNCHANGED <<app, inflight, tokens, mounted>>
  /\ UNCH_store

\* part_001 GET /stats
AdminStats(tok) ==
  /\ Ready
  /\ app = "modular"
  /\ resp' = IF Gate(tok) # "ok" THEN Denied("userStats", tok)
             ELSE [op |-> "userStats", actor |-> tok.userId, status |-> 200,
                   message |-> "",
                   totalUsers |-> Cardinality(DOMAIN users),
                   vipUsers |-> Cardinality({u \in DOMAIN users : users[u].hasPaid})]
  /\ UNCHANGED <<app, inflight, tokens, mounted>>
  /\ UNCH_store

\* updateData of a revoke that clears the flag and nothing else.
VipUpdateData_FlagOnly(hasPaid, now) ==
  IF hasPaid
  THEN [hasPaid |-> TRUE, vipStartDate |-> Date(now),
        vipExpiryDate |-> Date(now + VipDurationDays),
        transactionId |-> <<"ADMIN_GRANTED", now>>]
  ELSE [hasPaid |-> FALSE]

\* part_001 PATCH /users/:userId/vip: the fields of updateData.
VipUpdateData(hasPaid, now) ==
  IF hasPaid
  THEN [hasPaid |-> TRUE, vipStartDate |-> Date(now),
        vipExpiryDate |-> Date(now + VipDurationDays),
        transactionId |-> <<"ADMIN_GRANTED", now>>]
  ELSE [hasPaid |-> FALSE, vipStartDate |-> Null, vipExpiryDate |-> Null,
        transactionId |-> Null]

\* server.js PATCH /api/admin/users/:id/vip: the update document.
VipUpdateMonolith(hasPaid, now) ==
  [hasPaid |-> hasPaid, paymentDate |-> IF hasPaid THEN Date(now) ELSE Null]

AdminVip(tok, target, hasPaid, now) ==
  /\ Ready
  /\ IF Gate(tok) # "ok"
     THEN /\ resp' = Denied("vip", tok)
          /\ UNCHANGED users
     ELSE UpdateById("vip", tok, target,
                     IF app = "modular" THEN VipUpdateData(hasPaid, now)
                     ELSE VipUpdateMonolith(hasPaid, now),
                     IF hasPaid THEN "granted" ELSE "removed")
  /\ UNCHANGED <<app, inflight, nextUserId, tokens, mounted>>
  /\ UNCH_content

\* The block route refusing an account that already has the flag asked for.
AdminBlock_RejectRepeat(tok, target, blocked) ==
  /\ Ready
  /\ app = "monolith"
  /\ IF Gate(tok) # "ok"
     THEN /\ resp' = Denied("block", tok)
          /\ UNCHANGED users
     ELSE IF target \in DOMAIN users /\ users[target].isBlocked = blocked
     THEN /\ resp' = Answer("block", tok, 400, "Nothing to change") @@ [target |-> target]
          /\ UNCHANGED users
     ELSE UpdateById("block", tok, target, [isBlocked |-> blocked],
                     IF blocked THEN "User blocked successfully"
                     ELSE "User unblocked successfully")
  /\ UNCHANGED <<app, inflight, nextUserId, tokens, mounted>>
  /\ UNCH_content

\* server.js PATCH /api/admin/users/:id/block (the first registration of the
\* route answers; the second, lines 590-615, is never reached).
AdminBlock(tok, target, blocked) ==
  /\ Ready
  /\ app = "monolith"
  /\ IF Gate(tok) # "ok"
     THEN /\ resp' = Denied("block", tok)
          /\ UNCHANGED users
     ELSE UpdateById("block", tok, target, [isBlocked |-> blocked],
                     IF blocked THEN "User blocked successfully"
                     ELSE "User unblocked successfully")
  /\ UNCHANGED <<app, inflight, nextUserId, tokens, mounted>>
  /\ UNCH_content

\* server.js PATCH /api/admin/users/:id/generate-temp-password
AdminTempPassword(tok, target, tempPassword) ==
  /\ Ready
  /\ app = "monolith"
  /\ IF Gate(tok) # "ok"
     THEN /\ resp' = Denied("tempPassword", tok)
          /\ UNCHANGED users
     ELSE UpdateById("tempPassword", tok, target,
                     [password |-> Hash(tempPassword), needsPasswordChange |-> TRUE],
                     "Temporary password generated successfully")
  /\ UNCHANGED <<app, inflight, nextUserId, tokens, mounted>>
  /\ UNCH_content

\* ----------------------------------------------------------------- games
\* A game of the modular server carries its category, the day of its
\* matchTime and its result (absent until set); a game of server.js carries
\* isVip and status.
IsVipGame(g) == IF app = "modular" THEN g.category = "VIP Tips" ELSE g.isVip

UNCH_accounts == UNCHANGED <<app, inflight, users, nextUserId, tokens, mounted>>

\* routes/games.js GET /date/:date, GET /today, GET /all: the find() filters.
GamesByDate(date) == {g \in DOMAIN games : games[g].matchDay = date}
GamesAll == DOMAIN games

\* day: the day asked for (/date/:date), the clock's day (/today), 0 for /all.
ListGamesModular(tok, route, day) ==
  /\ Ready
  /\ app = "modular"
  /\ resp' = [op |-> "listGames", route |-> route, actor |-> auth(tok), status |-> 200,
              message |-> "",
              list |-> IF route = "all" THEN GamesAll ELSE GamesByDate(day)]
  /\ UNCHANGED <<games, nextGameId, posts, nextPostId>>
  /\ UNCH_accounts

\* server.js GET /api/games
ListGamesMonolith(tok) ==
  /\ Ready
  /\ app = "monolith"
  /\ LET id == authenticateToken(tok) IN
     resp' = IF findById(id) = {}
             THEN [op |-> "listGames", route |-> "games", actor |-> id, status |-> 500,
                   message |-> "Server error", list |-> {}]
             ELSE [op |-> "listGames", route |-> "games", actor |-> id, status |-> 200,
                   message |-> "",
                   list |-> IF users[id].hasPaid \/ users[id].isAdmin
                            THEN DOMAIN games
                            ELSE {g \in DOMAIN games : ~games[g].isVip}]
  /\ UNCHANGED <<games, nextGameId, posts, nextPostId>>
  /\ UNCH_accounts

\* routes/games.js POST /: the body has all six fields or not, odds, category,
\* the day of matchTime; saved is whether the schema's validation accepts the
\* document.
CreateGameModular(tok, complete, odds, category, day, saved) ==
  /\ Ready
  /\ app = "modular"
  /\ IF Gate(tok) # "ok"
     THEN /\ resp' = Denied("createGame", tok)
          /\ UNCHANGED <<games, nextGameId>>
     ELSE IF ~complete
     THEN /\ resp' = Answer("createGame", tok, 400, "All fields are required")
          /\ UNCHANGED <<games, nextGameId>>
     ELSE IF odds <= 1
     THEN /\ resp' = Answer("createGame", tok, 400, "Odds must be greater than 1.0")
          /\ UNCHANGED <<games, nextGameId>>
     ELSE IF category \notin {"All Tips", "Sure Tips", "Over/Under Tips", "Bonus", "VIP Tips"}
     THEN /\ resp' = Answer("createGame", tok, 400, "Invalid category")
          /\ UNCHANGED <<games, nextGameId>>
     ELSE IF ~saved
     THEN /\ resp' = Answer("createGame", tok, 400, "Validation error")
          /\ UNCHANGED <<games, nextGameId>>
     ELSE /\ nextGameId <= MaxGameId
          /\ games' = Insert(games, nextGameId,
                             [category |-> category, matchDay |-> day, result |-> NoResult])
          /\ nextGameId' = nextGameId + 1
          /\ resp' = Answer("createGame", tok, 201, "Game created successfully")
  /\ UNCHANGED <<posts, nextPostId>>
  /\ UNCH_accounts

\* server.js POST /api/games: new Game(req.body); valid is whether the body
\* passes the schema.
CreateGameMonolith(tok, valid, isVip) ==
  /\ Ready
  /\ app = "monolith"
  /\ IF Gate(tok) # "ok"
     THEN /\ resp' = Denied("createGame", tok)
          /\ UNCHANGED <<games, nextGameId>>
     ELSE IF ~valid
     THEN /\ resp' = Answer("createGame", tok, 500, "Server error")
          /\ UNCHANGED <<games, nextGameId>>
     ELSE /\ nextGameId <= MaxGameId
          /\ games' = Insert(games, nextGameId, [isVip |-> isVip, status |-> "pending"])
          /\ nextGameId' = nextGameId + 1
          /\ resp' = Answer("createGame", tok, 201, "")
  /\ UNCHANGED <<posts, nextPostId>>
  /\ UNCH_accounts

\* routes/games.js PATCH /:id/result
UpdateResultModular(tok, target, result) ==
  /\ Ready
  /\ app = "modular"
  /\ IF Gate(tok) # "ok"
     THEN /\ resp' = Denied("updateResult", tok)
          /\ UNCHANGED games
     ELSE IF result \notin {"win", "loss"}
     THEN /\ resp' = Answer("updateResult", tok, 400, "Invalid result")
          /\ UNCHANGED games
     ELSE IF target = BadId
     THEN /\ resp' = Answer("updateResult", tok, 500, "Server error")
          /\ UNCHANGED games
     ELSE IF target \notin DOMAIN games
     THEN /\ resp' = Answer("updateResult", tok, 404, "Game not found")
          /\ UNCHANGED games
     ELSE /\ games' = Update(games, target, "result", result)
          /\ resp' = Answer("updateResult", tok, 200, "Game result updated")
  /\ UNCHANGED <<nextGameId, posts, nextPostId>>
  /\ UNCH_accounts

\* server.js PATCH /api/games/:id/result: result is read (line 408) before its
\* const declaration (line 411), which throws into the catch.
UpdateResultMonolith(tok, target, result) ==
  /\ Ready
  /\ app = "monolith"
  /\ resp' = IF Gate(tok) # "ok" THEN Denied("updateResult", tok)
             ELSE Answer("updateResult", tok, 500, "Server error")
  /\ UNCHANGED <<games, nextGameId, posts, nextPostId>>
  /\ UNCH_accounts

\* routes/games.js DELETE /:id
DeleteGameModular(tok, target) ==
  /\ Ready
  /\ app = "modular"
  /\ IF Gate(tok) # "ok"
     THEN /\ resp' = Denied("deleteGame", tok)
          /\ UNCHANGED games
     ELSE IF target = BadId
     THEN /\ resp' = Answer("deleteGame", tok, 500, "Server error")
          /\ UNCHANGED games
     ELSE IF target \notin DOMAIN games
     THEN /\ resp' = Answer("deleteGame", tok, 404, "Game not found")
          /\ UNCHANGED games
     ELSE /\ games' = Remove(games, {target})
          /\ resp' = Answer("deleteGame", tok, 200, "Game deleted successfully")
  /\ UNCHANGED <<nextGameId, posts, nextPostId>>
  /\ UNCH_accounts

\* server.js DELETE /api/games/:id: answers 200 whether or not a game had the id.
DeleteGameMonolith(tok, target) ==
  /\ Ready
  /\ app = "monolith"
  /\ IF Gate(tok) # "ok"
     THEN /\ resp' = Denied("deleteGame", tok)
          /\ UNCHANGED games
     ELSE IF target = BadId
     THEN /\ resp' = Answer("deleteGame", tok, 500, "Server error")
          /\ UNCHANGED games
     ELSE /\ games' = Remove(games, {target} \cap DOMAIN games)
          /\ resp' = Answer("deleteGame", tok, 200, "Game deleted successfully")
  /\ UNCHANGED <<nextGameId, posts, nextPostId>>
  /\ UNCH_accounts

\* routes/games.js GET /stats/summary
GameStats(tok) ==
  /\ Ready
  /\ app = "modular"
  /\ resp' = IF Gate(tok) # "ok" THEN Denied("gameStats", tok)
             ELSE LET total == Cardinality(DOMAIN games)
                      completed == Cardinality({g \in DOMAIN games : games[g].result # NoResult})
                  IN [op |-> "gameStats", actor |-> tok.userId, status |-> 200,
                      message |-> "",
                      totalGames |-> total, completedGames |-> completed,
                      pendingGames |-> total - completed,
                      wonGames |-> Cardinality({g \in DOMAIN games : games[g].result = "win"}),
                      lostGames |-> Cardinality({g \in DOMAIN games : games[g].result = "loss"})]
  /\ UNCHANGED <<games, nextGameId, posts, nextPostId>>
  /\ UNCH_accounts

\* ----------------------------------------------------------------- posts
\* A post carries its author and the authors of its replies (comments), in
\* order; hasContent is whether the body's content is non-empty once trimmed
\* (community.js) or the body passes the schema (server.js).
UNCH_games == UNCHANGED <<games, nextGameId>>

\* community.js GET /posts and server.js GET /api/posts
ListPosts(tok) ==
  /\ Ready
  /\ resp' = [op |-> "listPosts", actor |-> tok.userId, status |-> 200,
              message |-> "", list |-> DOMAIN posts]
  /\ UNCHANGED <<posts, nextPostId>>
  /\ UNCH_games
  /\ UNCH_accounts

\* community.js POST /posts
CreatePostModular(tok, hasContent) ==
  /\ Ready
  /\ app = "modular"
  /\ IF ~hasContent
     THEN /\ resp' = Answer("createPost", tok, 400, "Content is required")
          /\ UNCHANGED <<posts, nextPostId>>
     ELSE /\ nextPostId <= MaxPostId
          /\ posts' = Insert(posts, nextPostId, [author |-> auth(tok), replies |-> <<>>])
          /\ nextPostId' = nextPostId + 1
          /\ resp' = Answer("createPost", tok, 201, "Post created successfully")
  /\ UNCH_games
  /\ UNCH_accounts

\* server.js POST /api/posts: the document is { ...req.body, author }, so the
\* body's author is overwritten and every other schema field of the body is
\* stored as sent. body holds the body's comments (none: the schema's default)
\* and, when sent, its author.
CreatePostMonolith(tok, hasContent, body) ==
  /\ Ready
  /\ app = "monolith"
  /\ IF ~hasContent
     THEN /\ resp' = Answer("createPost", tok, 500, "Server error")
          /\ UNCHANGED <<posts, nextPostId>>
     ELSE /\ nextPostId <= MaxPostId
          /\ posts' = Insert(posts, nextPostId,
                             [author |-> authenticateToken(tok)] @@ body)
          /\ nextPostId' = nextPostId + 1
          /\ resp' = Answer("createPost", tok, 201, "")
  /\ UNCH_games
  /\ UNCH_accounts

\* community.js POST /posts/:postId/reply
ReplyModular(tok, target, hasContent) ==
  /\ Ready
  /\ app = "modular"
  /\ IF ~hasContent
     THEN /\ resp' = Answer("reply", tok, 400, "Reply content is required")
          /\ UNCHANGED posts
     ELSE IF target = BadId
     THEN /\ resp' = Answer("reply", tok, 500, "Error adding reply")
          /\ UNCHANGED posts
     ELSE IF target \notin DOMAIN posts
     THEN /\ resp' = Answer("reply", tok, 404, "Post not found")
          /\ UNCHANGED posts
     ELSE /\ Len(posts[target].replies) < MaxReplies
          /\ posts' = Update(posts, target, "replies",
                             Append(posts[target].replies, auth(tok)))
          /\ resp' = Answer("reply", tok, 201, "Reply added successfully")
  /\ UNCHANGED nextPostId
  /\ UNCH_games
  /\ UNCH_accounts

\* server.js POST /api/posts/:id/comments
CommentMonolith(tok, target) ==
  /\ Ready
  /\ app = "monolith"
  /\ IF target = BadId
     THEN /\ resp' = Answer("reply", tok, 500, "Server error")
          /\ UNCHANGED posts
     ELSE IF target \notin DOMAIN posts
     THEN /\ resp' = Answer("reply", tok, 404, "Post not found")
          /\ UNCHANGED posts
     ELSE /\ Len(posts[target].replies) < MaxReplies
          /\ posts' = Update(posts, target, "replies",
                             Append(posts[target].replies, authenticateToken(tok)))
          /\ resp' = Answer("reply", tok, 201, "")
  /\ UNCHANGED nextPostId
  /\ UNCH_games
  /\ UNCH_accounts

\* community.js DELETE /posts/:postId: the answer, and whether the post goes.
DeletePostModularOutcome(id, target) ==
  IF findById(id) = {}
  THEN [status |-> 500, message |-> "Error deleting post", delete |-> FALSE]
  ELSE IF ~users[id].isAdmin
  THEN [status |-> 403, message |-> "Access denied. Admin only.", delete |-> FALSE]
  ELSE IF target = BadId
  THEN [status |-> 500, message |-> "Error deleting post", delete |-> FALSE]
  ELSE IF target \notin DOMAIN posts
  THEN [status |-> 404, message |-> "Post not found", delete |-> FALSE]
  ELSE [status |-> 200, message |-> "Post deleted successfully", delete |-> TRUE]

\* server.js DELETE /api/posts/:id
DeletePostMonolithOutcome(id, target) ==
  IF target = BadId
  THEN [status |-> 500, message |-> "Server error", delete |-> FALSE]
  ELSE IF target \notin DOMAIN posts
  THEN [status |-> 404, message |-> "Post not found", delete |-> FALSE]
  ELSE IF posts[target].author # id /\ findById(id) = {}
  THEN [status |-> 500, message |-> "Server error", delete |-> FALSE]
  ELSE IF posts[target].author # id /\ ~users[id].isAdmin
  THEN [status |-> 403, message |-> "Not authorized", delete |-> FALSE]
  ELSE [status |-> 200, message |-> "Post deleted successfully", delete |-> TRUE]

DeletePost(tok, target) ==
  /\ Ready
  /\ LET out == IF app = "modular" THEN DeletePostModularOutcome(auth(tok), target)
                ELSE DeletePostMonolithOutcome(authenticateToken(tok), target)
     IN /\ posts' = IF out.delete THEN Remove(posts, {target}) ELSE posts
        /\ resp' = [op |-> "deletePost", actor |-> tok.userId, target |-> target,
                    status |-> out.status, message |-> out.message]
  /\ UNCHANGED nextPostId
  /\ UNCH_games
  /\ UNCH_accounts

\* The response goes out to the caller.
Respond ==
  /\ resp # Idle
  /\ resp' = Idle
  /\ UNCHANGED <<app, inflight, tokens, mounted>>
  /\ UNCH_store

\* --------------------------------------------------- interleaved handlers
\* A handler that awaits a read and later a save() is two steps: other
\* requests are served between them. inflight is the bag of the handlers that
\* have read: two requests with the same body are two handlers.
Await(r)  == inflight (+) SetToBag({r})
Resume(r) == inflight (-) SetToBag({r})

\* server.js User model: username and email are unique: true. The insert of a
\* document whose username or email is stored is rejected (E11000).
duplicateKey_NoIndex(username, email) == {}

duplicateKey(username, email) ==
  {u \in DOMAIN users : users[u].username = username \/ users[u].email = email}

\* models/User (modular server): the same unique fields.
ModelsUserDuplicateKey(username, email) ==
  {u \in DOMAIN users : users[u].username = username \/ users[u].email = email}

\* document.save() of a document that was read: only the paths assigned since
\* the read are written ($set), onto the document as stored now.
save_WholeDocument(read, id, modified) ==
  [users EXCEPT ![id] =
     [f \in DOMAIN read |-> IF f \in DOMAIN modified THEN modified[f] ELSE read[f]]]

save(read, id, modified) ==
  [users EXCEPT ![id] =
     [f \in DOMAIN users[id] |->
        IF f \in DOMAIN modified THEN modified[f] ELSE users[id][f]]]

\* POST /register up to the end of await User.findOne(...).
RegisterFind(username, email, password) ==
  /\ Ready
  /\ BagCardinality(inflight) < MaxInflight
  /\ IF findOneByEmailOrUsername(email, username) # {}
     THEN /\ resp' = [op |-> "register", username |-> username, email |-> email,
                      status |-> 400, message |-> "User already exists", token |-> Null]
          /\ UNCHANGED inflight
     ELSE /\ inflight' = Await(
                 [op |-> "register", username |-> username,
                   email |-> email, password |-> password])
          /\ UNCHANGED resp
  /\ UNCHANGED <<app, tokens, mounted>>
  /\ UNCH_store

\* POST /register from await user.save() on.
RegisterSave(r) ==
  /\ Ready
  /\ r.op = "register"
  /\ inflight' = Resume(r)
  /\ LET dup == IF app = "modular" THEN ModelsUserDuplicateKey(r.username, r.email)
                ELSE duplicateKey(r.username, r.email)
         doc == IF app = "modular"
                THEN ModelsUser(r.username, r.email, r.password, FALSE, FALSE)
                ELSE MonolithUser(r.username, r.email, Hash(r.password))
         tok == IF app = "modular" THEN ModularToken(nextUserId, doc)
                ELSE MonolithToken(nextUserId, doc)
     IN IF dup # {}
        THEN /\ resp' = [op |-> "register", username |-> r.username, email |-> r.email,
                         status |-> 500,
                         message |-> IF app = "modular" THEN "Server error"
                                     ELSE "Server error during registration",
                         token |-> Null]
             /\ UNCHANGED <<users, nextUserId, tokens>>
        ELSE /\ nextUserId <= MaxUserId
             /\ users' = Insert(users, nextUserId, doc)
             /\ nextUserId' = nextUserId + 1
             /\ tokens' = tokens \cup {tok}
             /\ resp' = [op |-> "register", username |-> r.username, email |-> r.email,
                         status |-> 201,
                         message |-> IF app = "modular" THEN ""
                                     ELSE "User created successfully",
                         token |-> tok]
  /\ UNCHANGED <<app, mounted>>
  /\ UNCH_content

\* PATCH change-password up to the password comparison: the checks run on the
\* document as read.
ChangePasswordFind(tok, currentPassword, newPassword) ==
  /\ Ready
  /\ BagCardinality(inflight) < MaxInflight
  /\ LET id == tok.userId
         out == IF app = "modular"
                THEN ChangePasswordModularOutcome(auth(tok), currentPassword, newPassword)
                ELSE ChangePasswordMonolithOutcome(authenticateToken(tok),
                                                   currentPassword, newPassword)
     IN IF out.set
        THEN /\ inflight' = Await(
                    [op |-> "changePassword", actor |-> id,
                      currentPassword |-> currentPassword,
                      newPassword |-> newPassword, read |-> users[id]])
             /\ UNCHANGED resp
        ELSE /\ resp' = [op |-> "changePassword", actor |-> id,
                         currentPassword |-> currentPassword,
                         newPassword |-> newPassword,
                         status |-> out.status, message |-> out.message]
             /\ UNCHANGED inflight
  /\ UNCHANGED <<app, tokens, mounted>>
  /\ UNCH_store

\* PATCH change-password from user.password = ...; await user.save() on. The
\* save of a document deleted since the read throws into the catch.
ChangePasswordSave(r) ==
  /\ Ready
  /\ r.op = "changePassword"
  /\ inflight' = Resume(r)
  /\ IF findById(r.actor) = {}
     THEN /\ resp' = [op |-> "changePassword", actor |-> r.actor,
                      currentPassword |-> r.currentPassword,
                      newPassword |-> r.newPassword,
                      status |-> 500, message |-> "Server error"]
          /\ UNCHANGED users
     ELSE /\ users' = save(r.read, r.actor, [password |-> Hash(r.newPassword)])
          /\ resp' = [op |-> "changePassword", actor |-> r.actor,
                      currentPassword |-> r.currentPassword,
                      newPassword |-> r.newPassword, read |-> r.read,
                      status |-> 200, message |-> "Password changed successfully"]
  /\ UNCHANGED <<app, nextUserId, tokens, mounted>>
  /\ UNCH_content

\* server.js PATCH /api/user/payment up to the end of await User.findById.
PaymentFind(tok, now) ==
  /\ Ready
  /\ app = "monolith"
  /\ BagCardinality(inflight) < MaxInflight
  /\ LET id == authenticateToken(tok) IN
     IF findById(id) = {}
     THEN /\ resp' = [op |-> "payment", actor |-> id, status |-> 500,
                      message |-> "Server error"]
          /\ UNCHANGED inflight
     ELSE /\ inflight' = Await(
                 [op |-> "payment", actor |-> id, now |-> now,
                   read |-> users[id]])
          /\ UNCHANGED resp
  /\ UNCHANGED <<app, tokens, mounted>>
  /\ UNCH_store

\* server.js PATCH /api/user/payment from await user.save() on.
PaymentSave(r) ==
  /\ Ready
  /\ r.op = "payment"
  /\ inflight' = Resume(r)
  /\ IF findById(r.actor) = {}
     THEN /\ resp' = [op |-> "payment", actor |-> r.actor, status |-> 500,
                      message |-> "Server error"]
          /\ UNCHANGED users
     ELSE /\ users' = save(r.read, r.actor,
                           [hasPaid |-> TRUE, paymentDate |-> Date(r.now)])
          /\ resp' = [op |-> "payment", actor |-> r.actor, status |-> 200,
                      message |-> "Payment status updated successfully"]
  /\ UNCHANGED <<app, nextUserId, tokens, mounted>>
  /\ UNCH_content

\* part_002 createDefaultAdmin up to the end of await User.findOne(...): the
\* server is already listening, so requests are served before the save.
createDefaultAdminFind ==
  /\ Ready
  /\ app = "modular"
  /\ BagCardinality(inflight) < MaxInflight
  /\ IF findOneByUsername("admin") # {}
     THEN /\ resp' = [op |-> "createDefaultAdmin", created |-> FALSE]
          /\ UNCHANGED inflight
     ELSE /\ inflight' = Await([op |-> "createDefaultAdmin"])
          /\ UNCHANGED resp
  /\ UNCHANGED <<app, tokens, mounted>>
  /\ UNCH_store

\* part_002 createDefaultAdmin from await admin.save() on: a rejected insert
\* is caught and logged.
createDefaultAdminSave(r) ==
  /\ Ready
  /\ r.op = "createDefaultAdmin"
  /\ inflight' = Resume(r)
  /\ IF ModelsUserDuplicateKey("admin", "admin@betatips.com.ng") # {}
     THEN /\ UNCHANGED <<users, nextUserId>>
          /\ resp' = [op |-> "createDefaultAdmin", created |-> FALSE]
     ELSE /\ nextUserId <= MaxUserId
          /\ users' = Insert(users, nextUserId,
                 ModelsUser("admin", "admin@betatips.com.ng", "admin123", TRUE, TRUE))
          /\ nextUserId' = nextUserId + 1
          /\ resp' = [op |-> "createDefaultAdmin", created |-> TRUE]
  /\ UNCHANGED <<app, tokens, mounted>>
  /\ UNCH_content

\* games.js GET /stats/summary, one step per awaited query. The gate runs
\* once, before the first query; other requests are served between queries.
CountGames(results) ==
  Cardinality({g \in DOMAIN games : games[g].result \in results})

\* auth, isAdmin and line 200: countDocuments()
GameStatsTotal(tok) ==
  /\ Ready
  /\ app = "modular"
  /\ IF Gate(tok) # "ok"
     THEN /\ resp' = Denied("gameStats", tok)
          /\ UNCHANGED inflight
     ELSE /\ BagCardinality(inflight) < MaxInflight
          /\ inflight' = Await([op |-> "gameStats", actor |-> tok.userId,
                                totalGames |-> Cardinality(DOMAIN games)])
          /\ UNCHANGED resp
  /\ UNCHANGED <<app, tokens, mounted>>
  /\ UNCH_store

\* line 201: countDocuments({ result: { $exists: true } })
GameStatsCompleted(r) ==
  /\ Ready
  /\ r.op = "gameStats"
  /\ "completedGames" \notin DOMAIN r
  /\ inflight' = Await(r @@ [completedGames |-> Cardinality({g \in DOMAIN games : games[g].result # NoResult})]) (-) SetToBag({r})
  /\ UNCHANGED <<app, tokens, mounted, resp>>
  /\ UNCH_store

\* line 202: countDocuments({ result: 'win' })
GameStatsWon(r) ==
  /\ Ready
  /\ r.op = "gameStats"
  /\ "completedGames" \in DOMAIN r
  /\ "wonGames" \notin DOMAIN r
  /\ inflight' = Await(r @@ [wonGames |-> CountGames({"win"})]) (-) SetToBag({r})
  /\ UNCHANGED <<app, tokens, mounted, resp>>
  /\ UNCH_store

\* line 203: countDocuments({ result: 'loss' })
GameStatsLost(r) ==
  /\ Ready
  /\ r.op = "gameStats"
  /\ "wonGames" \in DOMAIN r
  /\ "lostGames" \notin DOMAIN r
  /\ inflight' = Await(r @@ [lostGames |-> CountGames({"loss"})]) (-) SetToBag({r})
  /\ UNCHANGED <<app, tokens, mounted, resp>>
  /\ UNCH_store

\* lines 204-240: pendingGames and winRate from the counts already taken, the
\* aggregate by category and the response. winRate is in tenths of a percent.
GameStatsSend(r) ==
  /\ Ready
  /\ r.op = "gameStats"
  /\ "lostGames" \in DOMAIN r
  /\ inflight' = Resume(r)
  /\ resp' = r @@
       [status |-> 200, message |-> "",
        pendingGames |-> r.totalGames - r.completedGames,
        winRate |-> IF r.completedGames > 0
                    THEN (2000 * r.wonGames + r.completedGames) \div (2 * r.completedGames)
                    ELSE 0,
        categoriesStats |->
          { [id |-> c,
             count |-> Cardinality({g \in DOMAIN games : games[g].category = c}),
             won |-> Cardinality({g \in DOMAIN games :
                                   games[g].category = c /\ games[g].result = "win"}),
             lost |-> Cardinality({g \in DOMAIN games :
                                    games[g].category = c /\ games[g].result = "loss"})] :
            c \in {games[g].category : g \in DOMAIN games} }]
  /\ UNCHANGED <<app, tokens, mounted>>
  /\ UNCH_store

\* ---------------------------------------------------------------- claims
HasField(doc, f) == f \in DOMAIN doc
Stored(id) == id \in DOMAIN users

\* C1: in every reachable state, for every account, hasPaid implies that
\* vipExpiryDate is set, and not hasPaid implies that vipStartDate and
\* vipExpiryDate are both null.
C1_VipDatesFollowHasPaid ==
  \A u \in DOMAIN users :
    /\ users[u].hasPaid => Get(users[u], "vipExpiryDate") # Null
    /\ ~users[u].hasPaid => /\ Get(users[u], "vipStartDate") = Null
                            /\ Get(users[u], "vipExpiryDate") = Null

\* The routes behind the admin gate.
AdminOps == {"listUsers", "userStats", "vip", "block", "tempPassword",
             "createGame", "updateResult", "deleteGame", "gameStats"}

\* C2: a request to a route behind the admin gate, made with the token of a
\* stored account whose isAdmin is false, is answered 403 and changes neither
\* an account nor a game, whatever its target and payload.
C2_NonAdminForbidden ==
  [][(/\ resp'.op \in AdminOps
      /\ Stored(resp'.actor)
      /\ ~users[resp'.actor].isAdmin)
     => /\ resp'.status = 403
        /\ users' = users
        /\ games' = games]_vars

\* A non-admin has been refused the issue of a temporary password, and
\* another account it could have aimed at is stored.
C2_Witness ==
  /\ resp.op = "tempPassword"
  /\ resp.status = 403
  /\ Stored(resp.actor)
  /\ ~users[resp.actor].isAdmin
  /\ \E u \in DOMAIN users : u # resp.actor

\* C3: hasPaid of a stored account changes only in a step that is the VIP
\* route answered for an actor whose stored account has isAdmin.
C3_HasPaidOnlyByAdmin ==
  [][\A u \in DOMAIN users \cap DOMAIN users' :
       users[u].hasPaid # users'[u].hasPaid
       => /\ resp'.op = "vip"
          /\ Stored(resp'.actor)
          /\ users[resp'.actor].isAdmin]_vars

\* What the caller of login sees.
LoginAnswer(username, password) ==
  LET out == IF app = "modular" THEN LoginModularOutcome(username, password)
             ELSE LoginMonolithOutcome(username, password)
  IN <<out.status, out.message>>

\* C4: for every stored account, whatever its flags, login with its username
\* and a wrong password is answered exactly as login with a username that is
\* not stored.
C4_WrongPasswordLikeUnknownUser ==
  \A u \in DOMAIN users, unknown \in LoginNames, password \in Passwords :
    (/\ findOneByUsername(unknown) = {}
     /\ ~comparePassword(password, users[u].password))
    => LoginAnswer(users[u].username, password) = LoginAnswer(unknown, password)

\* C5: login with the username and the password of an account whose isActive
\* is false is answered 403 and issues no token.
C5_DeactivatedLoginForbidden ==
  [][resp'.op = "login"
     => \A u \in findOneByUsername(resp'.username) :
          (/\ HasField(users[u], "isActive")
           /\ ~users[u].isActive
           /\ comparePassword(resp'.password, users[u].password))
          => /\ resp'.status = 403
             /\ resp'.token = Null
             /\ tokens' = tokens]_vars

\* A login with the right password has just been refused for a deactivated
\* account.
C5_Witness ==
  /\ resp.op = "login"
  /\ resp.status = 403
  /\ \E u \in findOneByUsername(resp.username) :
       /\ HasField(users[u], "isActive")
       /\ ~users[u].isActive
       /\ comparePassword(resp.password, users[u].password)

\* The requests that read or write content and need a login.
ContentOps == {"listGames", "listPosts", "createPost", "reply", "deletePost",
               "changePassword"}

\* C6: a content request made with the token of an account whose isBlocked is
\* true is denied (401 or 403), whenever the token was issued.
C6_BlockedActorDenied ==
  [][(/\ resp'.op \in ContentOps
      /\ Stored(resp'.actor)
      /\ HasField(users[resp'.actor], "isBlocked")
      /\ users[resp'.actor].isBlocked)
     => resp'.status \in {401, 403}]_vars

\* C7: every request made with the token of an account whose isActive is
\* false is denied (the claim adds: and reported as account deactivated).
C7_DeactivatedActorDenied ==
  [][(/\ HasField(resp', "actor")
      /\ Stored(resp'.actor)
      /\ HasField(users[resp'.actor], "isActive")
      /\ ~users[resp'.actor].isActive)
     => resp'.status \in {401, 403}]_vars

\* C8: a game listing answered for an actor that neither isAdmin nor hasPaid
\* holds no VIP game; for an actor that isAdmin or hasPaid the listing of all
\* games holds every stored game.
C8_VipGamesFiltered ==
  [][(/\ resp'.op = "listGames"
      /\ resp'.status = 200
      /\ Stored(resp'.actor))
     => IF users[resp'.actor].isAdmin \/ users[resp'.actor].hasPaid
        THEN resp'.route \in {"all", "games"} => resp'.list = DOMAIN games
        ELSE \A g \in resp'.list : ~IsVipGame(games[g])]_vars

\* C9: delete-post on a stored post, by an actor with a stored account,
\* succeeds and removes the post when the actor is its author or isAdmin, and
\* otherwise is answered 403 and leaves the posts as they were.
C9_DeletePostAuthorOrAdmin ==
  [][(/\ resp'.op = "deletePost"
      /\ resp'.target \in DOMAIN posts
      /\ Stored(resp'.actor))
     => IF posts[resp'.target].author = resp'.actor \/ users[resp'.actor].isAdmin
        THEN resp'.status = 200 /\ resp'.target \notin DOMAIN posts'
        ELSE resp'.status = 403 /\ posts' = posts]_vars

\* C10: changePassword with the right current password and a new password of
\* fewer than 6 characters is answered 400 and leaves the stored accounts,
\* the credential hash among them, unchanged.
C10_ShortPasswordRejected ==
  [][(/\ resp'.op = "changePassword"
      /\ Stored(resp'.actor)
      /\ comparePassword(resp'.currentPassword, users[resp'.actor].password)
      /\ Len(resp'.newPassword) < MinPasswordLength)
     => /\ resp'.status = 400
        /\ users' = users]_vars

\* C11: a register request whose username or whose e-mail is that of a stored
\* account is answered 400 'User already exists' with no token, and the
\* accounts and the tokens issued stay as they were.
C11_DuplicateRegisterConflict ==
  [][(/\ resp'.op = "register"
      /\ \E u \in DOMAIN users :
            users[u].username = resp'.username \/ users[u].email = resp'.email)
     => /\ resp'.status = 400
        /\ resp'.message = "User already exists"
        /\ resp'.token = Null
        /\ users' = users
        /\ tokens' = tokens]_vars

\* A register request has just been refused for its e-mail alone.
C11_Witness ==
  /\ resp.op = "register"
  /\ resp.status = 400
  /\ \E u \in DOMAIN users : users[u].email = resp.email
  /\ \A u \in DOMAIN users : users[u].username # resp.username

\* C12: no two stored accounts share a username or share an e-mail, however
\* the existence checks and the inserts of register requests interleave.
C12_UsernameEmailUnique ==
  \A u, v \in DOMAIN users :
     u # v => /\ users[u].username # users[v].username
              /\ users[u].email # users[v].email

\* A register request passed its existence check and its insert was then
\* rejected: another request stored the username or the e-mail in between.
C12_Witness ==
  /\ resp.op = "register"
  /\ resp.status = 500
  /\ \E u \in DOMAIN users :
        users[u].username = resp.username \/ users[u].email = resp.email

\* C13: the save of a change-password request writes the password and leaves
\* every other field of every account at the value stored just before the
\* save; a VIP, block or payment write leaves every stored password as it was.
C13_NoLostUpdate ==
  [][/\ (resp'.op = "changePassword" /\ resp'.status = 200)
        => /\ DOMAIN users' = DOMAIN users
           /\ \A u \in DOMAIN users :
                \A f \in DOMAIN users[u] \ {"password"} : users'[u][f] = users[u][f]
           /\ users'[resp'.actor].password = Hash(resp'.newPassword)
     /\ resp'.op \in {"vip", "block", "payment"}
        => \A u \in DOMAIN users \cap DOMAIN users' :
             users'[u].password = users[u].password]_vars

\* A change-password request has saved onto an account whose hasPaid or
\* isBlocked was rewritten between its read and its save.
C13_Witness ==
  /\ resp.op = "changePassword"
  /\ resp.status = 200
  /\ HasField(resp, "read")
  /\ Stored(resp.actor)
  /\ \/ resp.read.hasPaid # users[resp.actor].hasPaid
     \/ /\ HasField(resp.read, "isBlocked")
        /\ resp.read.isBlocked # users[resp.actor].isBlocked
  /\ users[resp.actor].password = Hash(resp.newPassword)

\* The fields a VIP grant or revoke writes.
VipFields == {"hasPaid", "vipStartDate", "vipExpiryDate", "transactionId", "paymentDate"}

\* C14: a VIP grant or revoke that is answered 200 changes one account and on
\* it only the VIP fields; after a revoke that account has hasPaid false and
\* its VIP dates and transaction id null, whatever they were (a grant before
\* it included). So grant then revoke leaves every other field as it was.
C14_GrantThenRevokeClears ==
  [][(resp'.op = "vip" /\ resp'.status = 200)
     => \E t \in DOMAIN users :
          /\ DOMAIN users' = DOMAIN users
          /\ \A u \in DOMAIN users \ {t} : users'[u] = users[u]
          /\ DOMAIN users'[t] = DOMAIN users[t]
          /\ \A f \in DOMAIN users[t] \ VipFields : users'[t][f] = users[t][f]
          /\ resp'.message = "removed"
             => /\ ~users'[t].hasPaid
                /\ \A f \in (DOMAIN users[t] \cap VipFields) \ {"hasPaid"} :
                     users'[t][f] = Null]_vars

\* A revoke has just been answered 200 and a non-admin account stands cleared.
C14_Witness ==
  /\ resp.op = "vip"
  /\ resp.status = 200
  /\ resp.message = "removed"
  /\ \E u \in DOMAIN users :
        /\ ~users[u].isAdmin
        /\ ~users[u].hasPaid
        /\ Get(users[u], "vipExpiryDate") = Null
        /\ Get(users[u], "paymentDate") = Null

\* C15: a block or unblock request by an admin on a stored account is answered
\* 200 and leaves every account as it was except the target's isBlocked, which
\* is the flag asked for; on an account that already has that flag nothing
\* changes.
C15_BlockIdempotent ==
  [][(/\ resp'.op = "block"
      /\ Stored(resp'.actor)
      /\ users[resp'.actor].isAdmin
      /\ resp'.target \in DOMAIN users)
     => /\ resp'.status = 200
        /\ LET blocked == resp'.message = "User blocked successfully"
           IN /\ users' = Update(users, resp'.target, "isBlocked", blocked)
              /\ users[resp'.target].isBlocked = blocked => users' = users]_vars

\* A block has been answered 200 for an account that holds the flag.
C15_Witness ==
  /\ resp.op = "block"
  /\ resp.status = 200
  /\ resp.message = "User blocked successfully"
  /\ Stored(resp.target)
  /\ users[resp.target].isBlocked

\* C16: a temporary password issued (200) leaves the target's
\* needsPasswordChange true, and a change-password answered 200 leaves the
\* actor's needsPasswordChange false.
C16_NeedsPasswordChangeCleared ==
  [][/\ (resp'.op = "tempPassword" /\ resp'.status = 200)
        => users'[resp'.target].needsPasswordChange
     /\ (/\ resp'.op = "changePassword"
         /\ resp'.status = 200
         /\ HasField(users'[resp'.actor], "needsPasswordChange"))
        => ~users'[resp'.actor].needsPasswordChange]_vars

\* C17: no step changes isAdmin of a stored account, and an account created
\* with isAdmin true is created by the admin bootstrap (createDefaultAdmin,
\* createAdmin.js), never by a request handler.
C17_IsAdminOnlyFromBootstrap ==
  [][/\ \A u \in DOMAIN users \cap DOMAIN users' :
          users'[u].isAdmin = users[u].isAdmin
     /\ \A u \in DOMAIN users' \ DOMAIN users :
          users'[u].isAdmin => resp'.op \in {"createDefaultAdmin", "createAdmin"}]_vars

\* A register request has stored an account beside an admin and every
\* handler that writes accounts has since written hers.
C17_Witness ==
  /\ \E u \in DOMAIN users : users[u].isAdmin
  /\ \E u \in DOMAIN users :
        /\ users[u].username = "alice"
        /\ ~users[u].isAdmin
        /\ users[u].hasPaid
        /\ users[u].password = Hash("abcdef")
        /\ HasField(users[u], "isBlocked") => users[u].isBlocked

\* C18: a run of the admin bootstrap (createDefaultAdmin or createAdmin.js)
\* that finds no account named admin stores one new account, named admin,
\* with isAdmin, hasPaid and (where the schema has it) isActive true; a run
\* that finds one leaves every account as it was.
C18_BootstrapIdempotent ==
  [][resp'.op \in {"createDefaultAdmin", "createAdmin"}
     => IF findOneByUsername("admin") = {}
        THEN \E id \in DOMAIN users' \ DOMAIN users :
               /\ users' = Insert(users, id, users'[id])
               /\ users'[id].username = "admin"
               /\ users'[id].isAdmin
               /\ users'[id].hasPaid
               /\ HasField(users'[id], "isActive") => users'[id].isActive
        ELSE users' = users]_vars

\* C19: an admin-gated request whose bearer has, at that moment, no stored
\* account with isAdmin true is refused (403, or 500 where the handler
\* throws) and changes no account and no game, whatever isAdmin value the
\* token was signed with.
C19_LiveAdminFlagDecides ==
  [][(/\ resp'.op \in AdminOps
      /\ ~(Stored(resp'.actor) /\ users[resp'.actor].isAdmin))
     => /\ resp'.status \in {403, 500}
        /\ users' = users
        /\ games' = games]_vars

\* An admin-gated request has been refused for the bearer of a token signed
\* with isAdmin true whose account is no longer stored.
C19_Witness ==
  /\ resp.op \in AdminOps
  /\ resp.status = 403
  /\ ~Stored(resp.actor)
  /\ \E tok \in tokens :
        /\ tok.userId = resp.actor
        /\ HasField(tok, "isAdmin")
        /\ tok.isAdmin

\* C20: a stored credential that is a temporary password is replaced only by
\* the save of a change-password request of that account that verified its
\* current password against that temporary password.
C20_TempCredentialNotOverwritten ==
  [][\A u \in DOMAIN users \cap DOMAIN users' : \A t \in TempPasswords :
       (users[u].password = Hash(t) /\ users'[u].password # Hash(t))
       => /\ resp'.op = "changePassword"
          /\ resp'.actor = u
          /\ resp'.currentPassword = t]_vars

\* C21: when a run of createDefaultAdmin has finished, an account named admin
\* with isAdmin true is stored.
C21_AdminExistsAfterBootstrap ==
  [][resp'.op = "createDefaultAdmin"
     => \E u \in DOMAIN users' :
          users'[u].username = "admin" /\ users'[u].isAdmin]_vars

\* C22: every games statistics response has wonGames + lostGames equal to
\* completedGames, pendingGames equal to totalGames - completedGames, and
\* pendingGames not negative.
C22_StatsConsistent ==
  (resp.op = "gameStats" /\ resp.status = 200)
    => /\ resp.wonGames + resp.lostGames = resp.completedGames
       /\ resp.pendingGames = resp.totalGames - resp.completedGames
       /\ resp.pendingGames >= 0

\* C23: a post that a request stores has the request's token's account id as
\* its author, and so has every reply or comment that a request adds to the
\* stored posts.
C23_AuthorIsTokenAccount ==
  [][\A p \in DOMAIN posts' :
       IF p \in DOMAIN posts
       THEN \A i \in (Len(posts[p].replies) + 1)..Len(posts'[p].replies) :
              posts'[p].replies[i] = resp'.actor
       ELSE /\ posts'[p].author = resp'.actor
            /\ \A i \in 1..Len(posts'[p].replies) :
                 posts'[p].replies[i] = resp'.actor]_vars

\* ------------------------------------------------------- specifications
\* The requests that create accounts and issue tokens: part of every
\* specification below.
Startup ==
  \/ createDefaultAdmin
  \/ createAdmin

Enrol ==
  \/ \E username \in Usernames, email \in Emails, password \in RegPasswords :
        \/ RegisterModular(username, email, password)
        \/ RegisterMonolith(username, email, password)
  \/ \E username \in LoginNames, password \in Passwords : Login(username, password)

\* Spec: the account lifecycle (credentials, VIP state, deactivation).
Next ==
  \/ Respond
  \/ Startup
  \/ Enrol
  \/ \E tok \in tokens : GetMeModular(tok) \/ GetMeMonolith(tok)
  \/ \E tok \in tokens, cur \in Passwords, new \in NewPasswords :
        ChangePassword(tok, cur, new)
  \/ \E tok \in tokens, now \in Times : Payment(tok, now)
  \/ \E id \in 1..MaxUserId : Deactivate(id)
  \/ \E tok \in tokens, target \in UserTargets, hasPaid \in BOOLEAN, now \in Times :
        AdminVip(tok, target, hasPaid, now)

Spec == Init /\ [][Next]_vars

\* SpecAdmin: every route behind the admin gate, called by every token holder.
\* The clock and the match day are held at 1, each username registers with one
\* e-mail and games are VIP games: the gate reads none of these.
NextAdmin ==
  \/ Respond
  \/ Startup
  \/ \E username \in Usernames :
        LET email == IF username = "alice" THEN "a@x.com" ELSE "b@y.com"
        IN \/ RegisterModular(username, email, "secret1")
           \/ RegisterMonolith(username, email, "secret1")
  \/ \E username \in Usernames, password \in {"secret1", "admin123"} :
        Login(username, password)
  \/ \E tok \in tokens : AdminListUsers(tok) \/ AdminStats(tok) \/ GameStats(tok)
  \/ \E tok \in tokens, target \in UserTargets, hasPaid \in BOOLEAN :
        AdminVip(tok, target, hasPaid, 1)
  \/ \E tok \in tokens, target \in UserTargets, blocked \in BOOLEAN :
        AdminBlock(tok, target, blocked)
  \/ \E tok \in tokens, target \in UserTargets, tempPassword \in TempPasswords :
        AdminTempPassword(tok, target, tempPassword)
  \/ \E tok \in tokens, complete \in BOOLEAN, odds \in {1, 2},
        category \in {"VIP Tips", "Other"}, saved \in BOOLEAN :
        CreateGameModular(tok, complete, odds, category, 1, saved)
  \/ \E tok \in tokens, valid \in BOOLEAN : CreateGameMonolith(tok, valid, TRUE)
  \/ \E tok \in tokens, target \in GameTargets, result \in {"win", "draw"} :
        UpdateResultModular(tok, target, result) \/ UpdateResultMonolith(tok, target, result)
  \/ \E tok \in tokens, target \in GameTargets :
        DeleteGameModular(tok, target) \/ DeleteGameMonolith(tok, target)

SpecAdmin == Init /\ [][NextAdmin]_vars

\* SpecContent: games and posts as the token holders read and write them,
\* with the account changes that decide what a holder may see.
NextContent ==
  \/ Respond
  \/ Startup
  \/ Enrol
  \/ \E id \in 1..MaxUserId : Deactivate(id)
  \/ \E tok \in tokens, target \in UserTargets, hasPaid \in BOOLEAN, now \in Times :
        AdminVip(tok, target, hasPaid, now)
  \/ \E tok \in tokens, target \in UserTargets, blocked \in BOOLEAN :
        AdminBlock(tok, target, blocked)
  \/ \E tok \in tokens, day \in Times :
        \/ ListGamesModular(tok, "date", day)
        \/ ListGamesModular(tok, "today", day)
  \/ \E tok \in tokens : ListGamesModular(tok, "all", 0) \/ ListGamesMonolith(tok)
  \/ \E tok \in tokens, category \in Categories, day \in Times :
        CreateGameModular(tok, TRUE, 2, category, day, TRUE)
  \/ \E tok \in tokens, isVip \in BOOLEAN : CreateGameMonolith(tok, TRUE, isVip)
  \/ \E tok \in tokens : ListPosts(tok)
  \/ \E tok \in tokens, hasContent \in BOOLEAN :
        \/ CreatePostModular(tok, hasContent)
        \/ CreatePostMonolith(tok, hasContent, [replies |-> <<>>])
  \/ \E tok \in tokens, target \in PostTargets, hasContent \in BOOLEAN :
        ReplyModular(tok, target, hasContent)
  \/ \E tok \in tokens, target \in PostTargets : CommentMonolith(tok, target)
  \/ \E tok \in tokens, target \in PostTargets : DeletePost(tok, target)

SpecContent == Init /\ [][NextContent]_vars

\* SpecRegister: register requests interleaved between their existence check
\* and their insert.
NextRegister ==
  \/ Respond
  \/ Startup
  \/ \E username \in Usernames \cup {"bob"}, email \in Emails, password \in RegPasswords :
        RegisterFind(username, email, password)
  \/ \E r \in BagToSet(inflight) : RegisterSave(r)

SpecRegister == Init /\ [][NextRegister]_vars

\* SpecRace: alice's change-password and payment requests, which read and
\* later save, interleaved with each other and with the admin's single-write
\* updates of her account. The clock is held at 1.
NextRace ==
  \/ Respond
  \/ Startup
  \/ RegisterModular("alice", "a@x.com", "secret1")
  \/ RegisterMonolith("alice", "a@x.com", "secret1")
  \/ Login("admin", "admin123")
  \/ \E tok \in tokens : GetMeModular(tok)
  \/ \E tok \in tokens :
        /\ tok.userId \in findOneByUsername("alice")
        /\ \/ ChangePasswordFind(tok, "secret1", "abcdef")
           \/ PaymentFind(tok, 1)
  \/ \E r \in BagToSet(inflight) : ChangePasswordSave(r) \/ PaymentSave(r)
  \/ \E tok \in tokens, target \in findOneByUsername("alice"), flag \in BOOLEAN :
        \/ AdminVip(tok, target, flag, 1)
        \/ AdminBlock(tok, target, flag)

SpecRace == Init /\ [][NextRace]_vars

\* SpecTemp: temporary passwords issued by the admin while alice logs in and
\* changes her password.
NextTemp ==
  \/ Respond
  \/ Startup
  \/ RegisterModular("alice", "a@x.com", "secret1")
  \/ RegisterMonolith("alice", "a@x.com", "secret1")
  \/ \E username \in Usernames, password \in Passwords \cup TempPasswords :
        Login(username, password)
  \/ \E tok \in tokens : GetMeModular(tok)
  \/ \E tok \in tokens, cur \in {"secret1", "100000"} :
        /\ tok.userId \in findOneByUsername("alice")
        /\ ChangePasswordFind(tok, cur, "abcdef")
  \/ \E r \in BagToSet(inflight) : ChangePasswordSave(r)
  \/ \E tok \in tokens, target \in findOneByUsername("alice"),
        tempPassword \in TempPasswords :
        AdminTempPassword(tok, target, tempPassword)

SpecTemp == Init /\ [][NextTemp]_vars

\* SpecCredential: the life of alice's credential, one request at a time:
\* logins, her password changes and the temporary passwords the admin issues.
NextCredential ==
  \/ Respond
  \/ Startup
  \/ RegisterModular("alice", "a@x.com", "secret1")
  \/ RegisterMonolith("alice", "a@x.com", "secret1")
  \/ \E username \in Usernames, password \in Passwords \cup TempPasswords :
        Login(username, password)
  \/ \E tok \in tokens : GetMeModular(tok)
  \/ \E tok \in tokens, cur \in Passwords \cup TempPasswords, new \in NewPasswords :
        ChangePassword(tok, cur, new)
  \/ \E tok \in tokens, target \in UserTargets, tempPassword \in TempPasswords :
        AdminTempPassword(tok, target, tempPassword)

SpecCredential == Init /\ [][NextCredential]_vars

\* SpecFrame: every handler that writes an account, acting on alice's account
\* and on the admin's, one request at a time; the clock is held at 1.
NextFrame ==
  \/ Respond
  \/ Startup
  \/ RegisterModular("alice", "a@x.com", "secret1")
  \/ RegisterMonolith("alice", "a@x.com", "secret1")
  \/ \E username \in Usernames, password \in {"secret1", "admin123"} :
        Login(username, password)
  \/ \E tok \in tokens : GetMeModular(tok)
  \/ \E tok \in tokens, cur \in {"secret1", "admin123", "100000"} :
        ChangePassword(tok, cur, "abcdef")
  \/ \E tok \in tokens : Payment(tok, 1)
  \/ \E tok \in tokens, target \in 1..MaxUserId, flag \in BOOLEAN :
        \/ AdminVip(tok, target, flag, 1)
        \/ AdminBlock(tok, target, flag)
  \/ \E tok \in tokens, target \in 1..MaxUserId, tempPassword \in TempPasswords :
        AdminTempPassword(tok, target, tempPassword)

SpecFrame == Init /\ [][NextFrame]_vars

\* SpecBootstrap: createDefaultAdmin's find and save with register requests
\* served in between.
NextBootstrap ==
  \/ Respond
  \/ createDefaultAdminFind
  \/ \E r \in BagToSet(inflight) : createDefaultAdminSave(r)
  \/ \E username \in Usernames, email \in Emails, password \in RegPasswords :
        RegisterFind(username, email, password)
  \/ \E r \in BagToSet(inflight) : RegisterSave(r)

SpecBootstrap == Init /\ [][NextBootstrap]_vars

\* SpecStats: the statistics handler's queries with game creation, result
\* updates and deletions served in between.
NextStats ==
  \/ Respond
  \/ createDefaultAdmin
  \/ Login("admin", "admin123")
  \/ \E tok \in tokens, category \in Categories :
        CreateGameModular(tok, TRUE, 2, category, 1, TRUE)
  \/ \E tok \in tokens, target \in GameTargets, result \in {"win", "loss"} :
        UpdateResultModular(tok, target, result)
  \/ \E tok \in tokens, target \in GameTargets : DeleteGameModular(tok, target)
  \/ \E tok \in tokens : GameStatsTotal(tok)
  \/ \E r \in BagToSet(inflight) :
        \/ GameStatsCompleted(r)
        \/ GameStatsWon(r)
        \/ GameStatsLost(r)
        \/ GameStatsSend(r)

SpecStats == Init /\ [][NextStats]_vars

\* SpecPosts: posts, replies and comments created by every token holder, with
\* every body of POST /api/posts.
NextPosts ==
  \/ Respond
  \/ \E username \in Usernames :
        LET email == IF username = "alice" THEN "a@x.com" ELSE "b@y.com"
        IN \/ RegisterModular(username, email, "secret1")
           \/ RegisterMonolith(username, email, "secret1")
  \/ \E tok \in tokens, hasContent \in BOOLEAN : CreatePostModular(tok, hasContent)
  \/ \E tok \in tokens, hasContent \in BOOLEAN, body \in PostBodies :
        CreatePostMonolith(tok, hasContent, body)
  \/ \E tok \in tokens, target \in PostTargets, hasContent \in BOOLEAN :
        ReplyModular(tok, target, hasContent)
  \/ \E tok \in tokens, target \in PostTargets : CommentMonolith(tok, target)

SpecPosts == Init /\ [][NextPosts]_vars
====
